---- MODULE Spec2Model ----
(***************************************************************************)
(* Model of the NanoStat module of MultiQC                                 *)
(* (multiqc/modules/nanostat/nanostat.py): parsing of NanoStat reports,    *)
(* merging into the per-sample store, the general-stats column headers and *)
(* the reads-by-quality bar plot.                                          *)
(*                                                                         *)
(* A line of a report is modelled after line.strip().split(":"): the raw   *)
(* key (parts[0] before escaping) and the remaining parts, each a sequence *)
(* of characters.  Numbers in the reports of the model are integer         *)
(* literals, so float() and int() both yield integers.                     *)
(***************************************************************************)
EXTENDS Integers, Sequences, FiniteSets, TLC

\* ------------------------------------------------------------------------
\* Bounds of the model
\* ------------------------------------------------------------------------
\* Largest number of report files find_log_files hands to the module.
MaxStreams == 2

\* ------------------------------------------------------------------------
\* Class constants
\* ------------------------------------------------------------------------
_KEYS_NUM ==
  << "Active channels", "Number of reads", "Total bases",
     "Total bases aligned", "Read length N50", "Mean read length",
     "Median read length", "Median read quality", "Mean read quality",
     "Average percent identity", "Median percent identity" >>

_KEYS_READ_Q == << "&gt;Q5", "&gt;Q7", "&gt;Q10", "&gt;Q12", "&gt;Q15" >>

_stat_types == << "aligned", "seq summary", "unrecognized" >>

\* "{} ({})".format(k, stat_type): the composite key, kept as the pair of
\* its two arguments.
_key_fmt(k, stat_type) == << k, stat_type >>

Range(s) == { s[i] : i \in 1..Len(s) }

\* ------------------------------------------------------------------------
\* Text conversions
\* ------------------------------------------------------------------------
\* jinja2.escape on the key of a line: ">" becomes "&gt;".
Escape(key) ==
  CASE key = ">Q5"  -> "&gt;Q5"
    [] key = ">Q7"  -> "&gt;Q7"
    [] key = ">Q10" -> "&gt;Q10"
    [] key = ">Q12" -> "&gt;Q12"
    [] key = ">Q15" -> "&gt;Q15"
    [] OTHER        -> key

Digits == { "0", "1", "2", "3", "4", "5", "6", "7", "8", "9" }

DigitVal(c) ==
  CASE c = "0" -> 0 [] c = "1" -> 1 [] c = "2" -> 2 [] c = "3" -> 3
    [] c = "4" -> 4 [] c = "5" -> 5 [] c = "6" -> 6 [] c = "7" -> 7
    [] c = "8" -> 8 [] c = "9" -> 9

\* str.replace(",", "")
StripCommas(s) == SelectSeq(s, LAMBDA c : c # ",")

\* str.strip(): drop leading and trailing blanks.
RECURSIVE LStrip(_)
LStrip(s) == IF s # <<>> /\ Head(s) = " " THEN LStrip(Tail(s)) ELSE s

RECURSIVE RStrip(_)
RStrip(s) ==
  IF s # <<>> /\ s[Len(s)] = " " THEN RStrip(SubSeq(s, 1, Len(s) - 1)) ELSE s

Strip(s) == RStrip(LStrip(s))

\* The first whitespace-delimited token of a stripped, non-empty text.
RECURSIVE FirstToken(_)
FirstToken(s) ==
  IF s = <<>> \/ Head(s) = " " THEN <<>> ELSE <<Head(s)>> \o FirstToken(Tail(s))

RECURSIVE DigitsVal(_, _)
DigitsVal(s, acc) ==
  IF s = <<>> THEN acc ELSE DigitsVal(Tail(s), 10 * acc + DigitVal(Head(s)))

AllDigits(s) == s # <<>> /\ \A i \in 1..Len(s) : s[i] \in Digits

Ok(v) == [ok |-> TRUE, val |-> v]
Err(e) == [ok |-> FALSE, err |-> e]

\* The number a literal denotes: an optional sign and digits; anything else
\* is a ValueError.  Surrounding blanks are accepted by float() and int().
Literal(text) ==
  LET s == Strip(text)
      neg == s # <<>> /\ Head(s) = "-"
      body == IF neg THEN Tail(s) ELSE s
  IN  IF AllDigits(body)
        THEN Ok(IF neg THEN 0 - DigitsVal(body, 0) ELSE DigitsVal(body, 0))
        ELSE Err("ValueError")

\* float(parts[1].replace(",", ""))                       (line 95)
ParseNum(rest) ==
  IF Len(rest) = 0 THEN Err("IndexError")
  ELSE Literal(StripCommas(rest[1]))

\* int(parts[1].strip().split()[0])                       (line 99)
ParseReadQ(rest) ==
  IF Len(rest) = 0 THEN Err("IndexError")
  ELSE LET s == Strip(rest[1])
       IN  IF s = <<>> THEN Err("IndexError") ELSE Literal(FirstToken(s))

\* ------------------------------------------------------------------------
\* Dictionaries
\* ------------------------------------------------------------------------
EmptyDict == [k \in {} |-> 0]

\* d[key] = val
Put(d, key, val) ==
  [k \in DOMAIN d \cup {key} |-> IF k = key THEN val ELSE d[k]]

\* dict.update(other)
Update(d, other) ==
  [k \in DOMAIN d \cup DOMAIN other |->
     IF k \in DOMAIN other THEN other[k] ELSE d[k]]

\* ------------------------------------------------------------------------
\* parse_nanostat_log
\* ------------------------------------------------------------------------
\* The loop over the lines of the report (lines 84-100): the parsed
\* nano_stats, or the exception raised by the first malformed value.
RECURSIVE ParseLines(_, _)
ParseLines(lines, nano_stats) ==
  IF lines = <<>> THEN Ok(nano_stats)
  ELSE LET line == Head(lines)
           key == Escape(line.key)
       IN  IF key \in Range(_KEYS_NUM)
             THEN LET r == ParseNum(line.rest)
                  IN  IF r.ok
                        THEN ParseLines(Tail(lines), Put(nano_stats, key, r.val))
                        ELSE r
           ELSE IF key \in Range(_KEYS_READ_Q)
             THEN LET r == ParseReadQ(line.rest)
                  IN  IF r.ok
                        THEN ParseLines(Tail(lines), Put(nano_stats, key, r.val))
                        ELSE r
           ELSE ParseLines(Tail(lines), nano_stats)

\* The report variant (lines 102-108); "none" stands for the early return.
StatTypeOf_ActiveFirst(nano_stats) ==
  IF "Active channels" \in DOMAIN nano_stats THEN "seq summary"
  ELSE IF "Total bases aligned" \in DOMAIN nano_stats THEN "aligned"
  ELSE "none"

StatTypeOf(nano_stats) ==
  IF "Total bases aligned" \in DOMAIN nano_stats THEN "aligned"
  ELSE IF "Active channels" \in DOMAIN nano_stats THEN "seq summary"
  ELSE "none"

\* out_d (line 110)
OutD(nano_stats, stat_type) ==
  [ck \in { _key_fmt(k, stat_type) : k \in DOMAIN nano_stats } |->
     nano_stats[ck[1]]]

\* The condition of the "Duplicate sample data found!" message (113-116).
Duplicate_AnyExisting(data, s_name, out_d) == s_name \in DOMAIN data

Duplicate(data, s_name, out_d) ==
  /\ s_name \in DOMAIN data
  /\ (DOMAIN data[s_name]) \cap (DOMAIN out_d) # {}

\* self.nanostat_data.setdefault(s_name, {}).update(out_d) (line 118)
SetDefaultUpdate_Replace(data, s_name, out_d) ==
  [s \in DOMAIN data \cup {s_name} |->
     IF s = s_name THEN out_d ELSE data[s]]

SetDefaultUpdate(data, s_name, out_d) ==
  [s \in DOMAIN data \cup {s_name} |->
     IF s = s_name
       THEN Update(IF s \in DOMAIN data THEN data[s] ELSE EmptyDict, out_d)
       ELSE data[s]]

\* The whole call on file f with the store data: what it returns or raises,
\* the store afterwards, the messages it logs and whether the file is
\* registered as a data source.
ParseCall_Partial(data, f) ==
  LET p == ParseLines(f.f, EmptyDict)
      stat_type == IF p.ok THEN StatTypeOf(p.val) ELSE "none"
      out_d == IF p.ok /\ stat_type # "none" THEN OutD(p.val, stat_type)
               ELSE EmptyDict
  IN  IF ~p.ok
        THEN [outcome |-> "error", err |-> p.err, stat_type |-> "none",
              nano_stats |-> EmptyDict,
              out_d |-> EmptyDict, data |-> data, log |-> <<>>,
              source |-> FALSE]
      ELSE IF stat_type = "none"
        THEN [outcome |-> "skipped", err |-> "", stat_type |-> "none",
              nano_stats |-> p.val,
              out_d |-> EmptyDict,
              data |-> SetDefaultUpdate(data, f.s_name,
                                        OutD(p.val, "unrecognized")),
              log |-> << [msg |-> "skipping", who |-> f.fn] >>,
              source |-> FALSE]
      ELSE [outcome |-> "merged", err |-> "", stat_type |-> stat_type,
            nano_stats |-> p.val,
            out_d |-> out_d,
            data |-> SetDefaultUpdate(data, f.s_name, out_d),
            log |-> IF Duplicate(data, f.s_name, out_d)
                      THEN << [msg |-> "duplicate", who |-> f.s_name] >>
                      ELSE <<>>,
            source |-> TRUE]

ParseCall(data, f) ==
  LET p == ParseLines(f.f, EmptyDict)
      stat_type == IF p.ok THEN StatTypeOf(p.val) ELSE "none"
      out_d == IF p.ok /\ stat_type # "none" THEN OutD(p.val, stat_type)
               ELSE EmptyDict
  IN  IF ~p.ok
        THEN [outcome |-> "error", err |-> p.err, stat_type |-> "none",
              nano_stats |-> EmptyDict,
              out_d |-> EmptyDict, data |-> data, log |-> <<>>,
              source |-> FALSE]
      ELSE IF stat_type = "none"
        THEN [outcome |-> "skipped", err |-> "", stat_type |-> "none",
              nano_stats |-> p.val,
              out_d |-> EmptyDict, data |-> data,
              log |-> << [msg |-> "skipping", who |-> f.fn] >>,
              source |-> FALSE]
      ELSE [outcome |-> "merged", err |-> "", stat_type |-> stat_type,
            nano_stats |-> p.val,
            out_d |-> out_d,
            data |-> SetDefaultUpdate(data, f.s_name, out_d),
            log |-> IF Duplicate(data, f.s_name, out_d)
                      THEN << [msg |-> "duplicate", who |-> f.s_name] >>
                      ELSE <<>>,
            source |-> TRUE]

\* ------------------------------------------------------------------------
\* Report files handed over by find_log_files
\* ------------------------------------------------------------------------
Samples == { "S1", "S2" }

Txt0 == << " ", "0" >>
Txt1 == << " ", "1" >>
Txt2 == << " ", "2" >>
Txt3 == << " ", "3" >>
\* "1,0": a count with a thousands separator
Txt1c0 == << " ", "1", ",", "0" >>
\* "9 (x) x": a count followed by further columns
Txt9cols == << " ", "9", " ", "(", "x", ")", " ", "x" >>
Txt7 == << " ", "7" >>
TxtNeg1 == << " ", "-", "1" >>
TxtBad == << " ", "x" >>
TxtBlank == << " " >>

Line(key, text) == [key |-> key, rest |-> << text >>]
\* a line without a colon
Bare(key) == [key |-> key, rest |-> << >>]

\* Number of reads and the five cumulative counts ">Q5" .. ">Q15"
Counts(reads, q5, q7, q10, q12, q15) ==
  << Line("Number of reads", reads), Line(">Q5", q5), Line(">Q7", q7),
     Line(">Q10", q10), Line(">Q12", q12), Line(">Q15", q15) >>

CountLines ==
  { Counts(Txt1c0, Txt9cols, Txt7, Txt2, Txt2, Txt0),   \* 10 >= 9 >= 7 >= 2 >= 2 >= 0
    Counts(Txt3, Txt2, Txt2, Txt1, Txt1, Txt1),         \* 3 >= 2 >= 2 >= 1 >= 1 >= 1
    Counts(Txt1, Txt2, Txt1, Txt1, Txt0, Txt0),         \* >Q5 above the total
    Counts(Txt2, Txt1, Txt2, Txt1, Txt0, Txt0),         \* >Q7 above >Q5
    Counts(Txt1, Txt0, Txt0, Txt0, Txt0, TxtNeg1) }     \* negative >Q15

QualityLines ==
  { << >>,
    << Line("General summary", Txt1), Line("Median read quality", Txt7) >>,
    << Line("Mean read quality", Txt1c0), Line("Median read quality", Txt7) >> }

Aligned == << Line("Total bases aligned", Txt3) >>
SeqSummary == << Line("Active channels", Txt2) >>

\* reports of one variant
VariantBodies ==
  { d \o l : d \in { Aligned, SeqSummary }, l \in QualityLines \cup CountLines }

\* reports with both discriminating fields, and with none
OtherBodies ==
  { << Line("Total bases aligned", Txt1c0), Line("Active channels", Txt1),
       Line("Number of reads", Txt2) >>,
    << Line("General summary", Txt1) >>,
    << Line("Number of reads", Txt2), Line(">Q5", Txt1),
       Line("Median read quality", Txt7) >> }

MalformedBodies ==
  { \* a summary value that is not a number, after well-formed lines
    << Line("Total bases aligned", Txt3), Line("Number of reads", Txt2),
       Line("Mean read quality", TxtBad) >>,
    \* a cumulative count without a value
    << Line("Active channels", Txt2), Line(">Q5", TxtBlank) >>,
    \* a recognized key on a line without a colon
    << Line("Active channels", Txt2), Bare("Number of reads") >> }

Bodies == VariantBodies \cup OtherBodies \cup MalformedBodies

\* f["s_name"] and f["f"]; f["fn"], the name of the file, is the position of
\* the file among those find_log_files yields.
Files == { [s_name |-> s, f |-> b] : s \in Samples, b \in Bodies }

\* ------------------------------------------------------------------------
\* Filtering of ignored samples and the test for an empty store
\* ------------------------------------------------------------------------
\* BaseMultiqcModule.ignore_samples: the entries whose sample name is not on
\* the ignore list, in their order.
ignore_samples(data, ignore) ==
  [s \in DOMAIN data \ ignore |-> data[s]]

\* len(self.nanostat_data) == 0 (line 63)
NoReports_Never(data) == FALSE

NoReports(data) == Cardinality(DOMAIN data) = 0

\* ------------------------------------------------------------------------
\* nanostat_general_stats_table
\* ------------------------------------------------------------------------
\* headers_base[k].get("hidden", False) (lines 126-207)
HeadersBaseHidden(k) ==
  k \in { "Average percent identity", "Mean read length",
          "Mean read quality", "Median read length" }

\* key.startswith("&gt;"): of the keys of the two vocabularies, the
\* cumulative counts.
StartsWithGt(key) == key[1] \in Range(_KEYS_READ_Q)

\* header_keys (lines 209-211)
HeaderKeys(data) == UNION { DOMAIN data[s] : s \in DOMAIN data }

\* visible (lines 228-229); stat_type_idx counts from 0 as in the source.
Visible_FirstTypeOnly(stat_type_idx, first_in_headers, key) ==
  (stat_type_idx = 0) /\ ~StartsWithGt(key)

Visible(stat_type_idx, first_in_headers, key) ==
  ((stat_type_idx = 0) \/ ~first_in_headers) /\ ~StartsWithGt(key)

AllKeys == _KEYS_NUM \o _KEYS_READ_Q

\* headers (lines 216-230).  For one k the stat types are visited in the
\* order of _stat_types, so when a later type is visited first_type_key is
\* in headers exactly when it is in header_keys.
Headers(data) ==
  LET header_keys == HeaderKeys(data)
      cols == { << i, j >> \in (1..Len(AllKeys)) \X (1..Len(_stat_types)) :
                  _key_fmt(AllKeys[i], _stat_types[j]) \in header_keys }
      col(key) == CHOOSE c \in cols :
                    _key_fmt(AllKeys[c[1]], _stat_types[c[2]]) = key
  IN  [key \in { _key_fmt(AllKeys[c[1]], _stat_types[c[2]]) : c \in cols } |->
         LET k == key[1]
             first_type_key == _key_fmt(k, _stat_types[1])
             visible == Visible(col(key)[2] - 1,
                                first_type_key \in header_keys, key)
         IN  [placement |-> 1000 + (col(key)[1] - 1),
              hidden |-> HeadersBaseHidden(k) \/ (visible = FALSE)]]

\* ------------------------------------------------------------------------
\* nanostat_alignment_plot
\* ------------------------------------------------------------------------
\* _get_total_reads (lines 237-243)
RECURSIVE TotalReadsFrom(_, _)
TotalReadsFrom(data_dict, i) ==
  IF i > Len(_stat_types) THEN [total |-> "None", stat_type |-> "None"]
  ELSE LET total_key == _key_fmt("Number of reads", _stat_types[i])
       IN  IF total_key \in DOMAIN data_dict
             THEN [total |-> data_dict[total_key], stat_type |-> _stat_types[i]]
             ELSE TotalReadsFrom(data_dict, i + 1)

_get_total_reads(data_dict) == TotalReadsFrom(data_dict, 1)

\* _range_names (lines 248-255)
_range_names ==
  << << "&gt;Q5", "&lt;Q5" >>, << "&gt;Q7", "Q5-7" >>,
     << "&gt;Q10", "Q7-10" >>, << "&gt;Q12", "Q10-12" >>,
     << "&gt;Q15", "Q12-15" >>, << "rest", "&gt;Q15" >> >>

\* prev_reads - reads_gt (line 266)
Bucket_NoSubtraction(prev_reads, reads_gt) == prev_reads

Bucket(prev_reads, reads_gt) == prev_reads - reads_gt

\* The loop over _range_names for one sample (lines 260-274): the row of
\* the sample, or the exception it raises.
RECURSIVE RowFrom(_, _, _, _, _)
RowFrom(data_dict, stat_type, i, prev_reads, row) ==
  IF i > Len(_range_names) THEN Ok(row)
  ELSE LET k == _range_names[i][1]
           range_name == _range_names[i][2]
       IN  IF k # "rest"
             THEN LET data_key == _key_fmt(k, stat_type)
                  IN  IF data_key \notin DOMAIN data_dict THEN Err("KeyError")
                      ELSE LET reads_gt == data_dict[data_key]
                               v == Bucket(prev_reads, reads_gt)
                           IN  IF ~(v >= 0) THEN Err("AssertionError")
                               ELSE RowFrom(data_dict, stat_type, i + 1,
                                            reads_gt, Put(row, range_name, v))
           ELSE LET data_key == _key_fmt("&gt;Q15", stat_type)
                IN  IF data_key \notin DOMAIN data_dict THEN Err("KeyError")
                    ELSE RowFrom(data_dict, stat_type, i + 1, prev_reads,
                                 Put(row, range_name, data_dict[data_key]))

Row(data_dict) ==
  LET t == _get_total_reads(data_dict)
  IN  RowFrom(data_dict, t.stat_type, 1, t.total, EmptyDict)

\* The loop over the samples in the order of the store (lines 256-274):
\* bar_data, or the exception of the first sample that raises one.
RECURSIVE BarDataFrom(_, _, _)
BarDataFrom(data, names, bar_data) ==
  IF names = <<>> THEN Ok(bar_data)
  ELSE LET r == Row(data[Head(names)])
       IN  IF r.ok
             THEN BarDataFrom(data, Tail(names), Put(bar_data, Head(names), r.val))
             ELSE r

\* ------------------------------------------------------------------------
\* State
\* ------------------------------------------------------------------------
VARIABLES
  pc,             \* position in MultiqcModule.__init__
  nanostat_data,  \* self.nanostat_data: sample -> composite key -> value
  s_order,        \* the order in which the samples entered nanostat_data
  n_files,        \* number of report files handed to parse_nanostat_log
  data_sources,   \* the files registered with add_data_source
  last,           \* the latest call of parse_nanostat_log
  handed,         \* the collaborators that have received their output
  data_file,      \* the data given to write_data_file
  headers,        \* the headers given to general_stats_addcols
  bar_data,       \* the bar_data given to bargraph.plot
  raised          \* the exception that left __init__, "" if none

vars == << pc, nanostat_data, s_order, n_files, data_sources, last, handed,
           data_file, headers, bar_data, raised >>

NoCall ==
  [called |-> FALSE, s_name |-> "", fn |-> 0, before |-> EmptyDict,
   res |-> [outcome |-> "none", err |-> "", stat_type |-> "none",
            nano_stats |-> EmptyDict, out_d |-> EmptyDict,
            data |-> EmptyDict, log |-> <<>>, source |-> FALSE]]

Init ==
  /\ pc = "find_log_files"
  /\ nanostat_data = EmptyDict
  /\ s_order = <<>>
  /\ n_files = 0
  /\ data_sources = {}
  /\ last = NoCall
  /\ handed = {}
  /\ data_file = EmptyDict
  /\ headers = EmptyDict
  /\ bar_data = EmptyDict
  /\ raised = ""

\* One turn of the loop of lines 57-58: parse_nanostat_log(f) on the next
\* report file.  An exception of the parser is not caught and leaves
\* __init__.
ParseNanostatLog ==
  /\ pc = "find_log_files"
  /\ n_files < MaxStreams
  /\ \E fl \in Files :
       LET f == [s_name |-> fl.s_name, fn |-> n_files + 1, f |-> fl.f]
           r == ParseCall(nanostat_data, f)
       IN  /\ nanostat_data' = r.data
           /\ s_order' = IF r.outcome = "merged" /\ f.s_name \notin Range(s_order)
                           THEN Append(s_order, f.s_name) ELSE s_order
           /\ data_sources' = IF r.source
                                THEN data_sources \cup { [s_name |-> f.s_name, fn |-> f.fn] }
                                ELSE data_sources
           /\ last' = [called |-> TRUE, s_name |-> f.s_name, fn |-> f.fn,
                       before |-> nanostat_data, res |-> r]
           /\ pc' = IF r.outcome = "error" THEN "raised" ELSE pc
           /\ raised' = IF r.outcome = "error" THEN r.err ELSE raised
  /\ n_files' = n_files + 1
  /\ UNCHANGED << handed, data_file, headers, bar_data >>

\* Lines 60-66, after the last report file: drop the ignored samples and
\* raise UserWarning when nothing is left.
IgnoreSamples ==
  /\ pc = "find_log_files"
  /\ \E ignore \in SUBSET Samples :
       LET kept == ignore_samples(nanostat_data, ignore)
       IN  /\ nanostat_data' = kept
           /\ s_order' = SelectSeq(s_order, LAMBDA s : s \notin ignore)
           /\ pc' = IF NoReports(kept) THEN "raised" ELSE "write_data_file"
           /\ raised' = IF NoReports(kept) THEN "UserWarning" ELSE raised
  /\ UNCHANGED << n_files, data_sources, last, handed, data_file, headers,
                  bar_data >>

\* Line 69
WriteDataFile ==
  /\ pc = "write_data_file"
  /\ data_file' = nanostat_data
  /\ handed' = handed \cup { "data_file" }
  /\ pc' = "general_stats_table"
  /\ UNCHANGED << nanostat_data, s_order, n_files, data_sources, last,
                  headers, bar_data, raised >>

\* Line 72
GeneralStatsTable ==
  /\ pc = "general_stats_table"
  /\ headers' = Headers(nanostat_data)
  /\ handed' = handed \cup { "table" }
  /\ pc' = "alignment_plot"
  /\ UNCHANGED << nanostat_data, s_order, n_files, data_sources, last,
                  data_file, bar_data, raised >>

\* Line 75: bargraph.plot receives bar_data unless the derivation raises.
AlignmentPlot ==
  /\ pc = "alignment_plot"
  /\ LET r == BarDataFrom(nanostat_data, s_order, EmptyDict)
     IN  IF r.ok
           THEN /\ bar_data' = r.val
                /\ handed' = handed \cup { "plot" }
                /\ pc' = "done"
                /\ raised' = raised
           ELSE /\ pc' = "raised"
                /\ raised' = r.err
                /\ UNCHANGED << bar_data, handed >>
  /\ UNCHANGED << nanostat_data, s_order, n_files, data_sources, last,
                  data_file, headers >>

Next ==
  \/ ParseNanostatLog
  \/ IgnoreSamples
  \/ WriteDataFile
  \/ GeneralStatsTable
  \/ AlignmentPlot

Spec == Init /\ [][Next]_vars

\* ------------------------------------------------------------------------
\* Properties
\* ------------------------------------------------------------------------
\* The state right after a call of parse_nanostat_log.
JustParsed == last.called /\ (pc = "find_log_files" \/ last.res.outcome = "error")

\* nanostat_alignment_plot has been called.
PlotTried == "table" \in handed /\ pc # "alignment_plot"

\* C1: the variant of a report depends only on the recognized keys parsed
\* from it: with "Total bases aligned" it is merged as aligned (also when
\* "Active channels" is present) and the field is in the record of the
\* sample; otherwise with "Active channels" it is merged as seq summary;
\* otherwise it is dropped and the store is left alone.  No key of the
\* store ever carries the variant "unrecognized".
C1_VariantByParsedKeys ==
  /\ (JustParsed /\ last.res.outcome # "error") =>
       LET ns == last.res.nano_stats
           s == last.s_name
       IN  /\ "Total bases aligned" \in DOMAIN ns =>
                /\ last.res.outcome = "merged"
                /\ last.res.stat_type = "aligned"
                /\ s \in DOMAIN nanostat_data
                /\ << "Total bases aligned", "aligned" >> \in DOMAIN nanostat_data[s]
                /\ nanostat_data[s][<< "Total bases aligned", "aligned" >>]
                     = ns["Total bases aligned"]
           /\ ("Total bases aligned" \notin DOMAIN ns
                 /\ "Active channels" \in DOMAIN ns) =>
                /\ last.res.outcome = "merged"
                /\ last.res.stat_type = "seq summary"
                /\ s \in DOMAIN nanostat_data
                /\ << "Active channels", "seq summary" >> \in DOMAIN nanostat_data[s]
           /\ ("Total bases aligned" \notin DOMAIN ns
                 /\ "Active channels" \notin DOMAIN ns) =>
                /\ last.res.outcome = "skipped"
                /\ nanostat_data = last.before
  /\ \A s \in DOMAIN nanostat_data :
       \A ck \in DOMAIN nanostat_data[s] : ck[2] \in { "aligned", "seq summary" }

\* A report with both discriminating fields has been merged as aligned.
C1_Witness ==
  /\ JustParsed
  /\ { "Total bases aligned", "Active channels" } \subseteq DOMAIN last.res.nano_stats
  /\ last.res.outcome = "merged"
  /\ << "Total bases aligned", "aligned" >> \in DOMAIN nanostat_data[last.s_name]

\* C2: after the record r of variant v is merged for sample s, the entry of
\* s is its previous entry (empty for a new sample) overridden by
\* {(name, v) -> r[name]}, and the entries of the other samples are as
\* before.
C2_MergePostState ==
  (JustParsed /\ last.res.outcome = "merged") =>
    LET s == last.s_name
        r == last.res.nano_stats
        v == last.res.stat_type
        prev == IF s \in DOMAIN last.before THEN last.before[s] ELSE EmptyDict
        inc == { << name, v >> : name \in DOMAIN r }
    IN  /\ DOMAIN nanostat_data = DOMAIN last.before \cup { s }
        /\ DOMAIN nanostat_data[s] = DOMAIN prev \cup inc
        /\ \A ck \in inc : nanostat_data[s][ck] = r[ck[1]]
        /\ \A ck \in DOMAIN prev \ inc : nanostat_data[s][ck] = prev[ck]
        /\ \A o \in DOMAIN last.before \ { s } : nanostat_data[o] = last.before[o]

\* A merge into an existing sample that changes a stored value and keeps a
\* key the report does not have.
C2_Witness ==
  /\ JustParsed
  /\ last.res.outcome = "merged"
  /\ last.s_name \in DOMAIN last.before
  /\ \E ck \in DOMAIN last.before[last.s_name] :
       /\ ck \in DOMAIN last.res.out_d
       /\ last.before[last.s_name][ck] # nanostat_data[last.s_name][ck]
  /\ \E ck \in DOMAIN last.before[last.s_name] : ck \notin DOMAIN last.res.out_d

\* C3: a call logs exactly one "Duplicate sample data found" message, naming
\* the sample, when the sample is in the store and its keys meet the keys of
\* the merged record, and none otherwise; so a stored value never changes
\* without the message.
C3_ConflictObservable ==
  last.called =>
    LET s == last.s_name
        inc == { << name, last.res.stat_type >> : name \in DOMAIN last.res.nano_stats }
        conflict == /\ last.res.outcome = "merged"
                    /\ s \in DOMAIN last.before
                    /\ DOMAIN last.before[s] \cap inc # {}
        dups == { i \in 1..Len(last.res.log) : last.res.log[i].msg = "duplicate" }
    IN  /\ conflict => /\ Cardinality(dups) = 1
                       /\ \A i \in dups : last.res.log[i].who = s
        /\ ~conflict => dups = {}
        /\ (pc = "find_log_files" /\ dups = {}) =>
             \A o \in DOMAIN last.before :
               \A ck \in DOMAIN last.before[o] :
                 /\ o \in DOMAIN nanostat_data
                 /\ ck \in DOMAIN nanostat_data[o]
                 /\ nanostat_data[o][ck] = last.before[o][ck]

\* A merge that meets the stored keys of its sample and logs the message.
C3_Witness ==
  /\ last.called
  /\ last.res.outcome = "merged"
  /\ last.s_name \in DOMAIN last.before
  /\ DOMAIN last.before[last.s_name] \cap DOMAIN last.res.out_d # {}
  /\ Len(last.res.log) = 1

\* C4: when the counts of the chosen variant of every sample satisfy
\* total >= >Q5 >= >Q7 >= >Q10 >= >Q12 >= >Q15 >= 0 the plot is produced,
\* and in every plot produced such a sample has exactly the six buckets got
\* by successive subtraction, none negative, summing to its total.
C4_HistogramInvariant ==
  PlotTried =>
    LET nr == "Number of reads"
        chosen(d) == IF << nr, "aligned" >> \in DOMAIN d THEN "aligned"
                     ELSE IF << nr, "seq summary" >> \in DOMAIN d THEN "seq summary"
                     ELSE IF << nr, "unrecognized" >> \in DOMAIN d THEN "unrecognized"
                     ELSE "None"
        names == { nr, "&gt;Q5", "&gt;Q7", "&gt;Q10", "&gt;Q12", "&gt;Q15" }
        monotone(d) ==
          LET v == chosen(d)
          IN  /\ \A n \in names : << n, v >> \in DOMAIN d
              /\ d[<< nr, v >>] >= d[<< "&gt;Q5", v >>]
              /\ d[<< "&gt;Q5", v >>] >= d[<< "&gt;Q7", v >>]
              /\ d[<< "&gt;Q7", v >>] >= d[<< "&gt;Q10", v >>]
              /\ d[<< "&gt;Q10", v >>] >= d[<< "&gt;Q12", v >>]
              /\ d[<< "&gt;Q12", v >>] >= d[<< "&gt;Q15", v >>]
              /\ d[<< "&gt;Q15", v >>] >= 0
        exact(d, b) ==
          LET v == chosen(d)
          IN  /\ DOMAIN b = { "&lt;Q5", "Q5-7", "Q7-10", "Q10-12", "Q12-15", "&gt;Q15" }
              /\ b["&lt;Q5"] = d[<< nr, v >>] - d[<< "&gt;Q5", v >>]
              /\ b["Q5-7"] = d[<< "&gt;Q5", v >>] - d[<< "&gt;Q7", v >>]
              /\ b["Q7-10"] = d[<< "&gt;Q7", v >>] - d[<< "&gt;Q10", v >>]
              /\ b["Q10-12"] = d[<< "&gt;Q10", v >>] - d[<< "&gt;Q12", v >>]
              /\ b["Q12-15"] = d[<< "&gt;Q12", v >>] - d[<< "&gt;Q15", v >>]
              /\ b["&gt;Q15"] = d[<< "&gt;Q15", v >>]
              /\ \A x \in DOMAIN b : b[x] >= 0
              /\ b["&lt;Q5"] + b["Q5-7"] + b["Q7-10"] + b["Q10-12"]
                   + b["Q12-15"] + b["&gt;Q15"] = d[<< nr, v >>]
    IN  /\ (\A s \in DOMAIN nanostat_data : monotone(nanostat_data[s])) =>
             "plot" \in handed
        /\ "plot" \in handed =>
             \A s \in DOMAIN nanostat_data :
               monotone(nanostat_data[s]) =>
                 s \in DOMAIN bar_data /\ exact(nanostat_data[s], bar_data[s])

\* A plot of two samples, one of them with the counts 10, 9, 7, 2, 2, 0.
C4_Witness ==
  /\ "plot" \in handed
  /\ Cardinality(DOMAIN bar_data) = 2
  /\ \E s \in DOMAIN bar_data :
       /\ bar_data[s]["&lt;Q5"] = 1
       /\ bar_data[s]["Q5-7"] = 2
       /\ bar_data[s]["Q7-10"] = 5
       /\ bar_data[s]["&gt;Q15"] = 0

\* C5: a plot handed to bargraph.plot never holds a negative bucket.
C5_NoNegativeBucket ==
  "plot" \in handed =>
    \A s \in DOMAIN bar_data : \A b \in DOMAIN bar_data[s] : bar_data[s][b] >= 0

C7_EmptyInputAborts ==
  /\ raised = "UserWarning" =>
       pc = "raised" /\ handed = {} /\ DOMAIN nanostat_data = {}
  /\ (pc \in { "write_data_file", "general_stats_table", "alignment_plot", "done" }
        \/ handed # {}) =>
       DOMAIN nanostat_data # {}

\* A run whose only merged sample is on the ignore list.
C7_Witness ==
  /\ raised = "UserWarning"
  /\ last.res.outcome = "merged"
  /\ DOMAIN last.res.data # {}

\* C8: a malformed value on a recognized key does not end the run.
C8_StreamErrorIsolated ==
  (last.called /\ last.res.outcome = "error") => pc # "raised"

\* C9: when every sample of the store either has no "Number of reads" under
\* any variant or has non-increasing counts under its first variant, the
\* plot is produced, with a row for each of the latter and none for the
\* former.
C9_NoTotalNoRow ==
  PlotTried =>
    LET nr == "Number of reads"
        chosen(d) == IF << nr, "aligned" >> \in DOMAIN d THEN "aligned"
                     ELSE IF << nr, "seq summary" >> \in DOMAIN d THEN "seq summary"
                     ELSE IF << nr, "unrecognized" >> \in DOMAIN d THEN "unrecognized"
                     ELSE "None"
        names == { nr, "&gt;Q5", "&gt;Q7", "&gt;Q10", "&gt;Q12", "&gt;Q15" }
        monotone(d) ==
          LET v == chosen(d)
          IN  /\ \A n \in names : << n, v >> \in DOMAIN d
              /\ d[<< nr, v >>] >= d[<< "&gt;Q5", v >>]
              /\ d[<< "&gt;Q5", v >>] >= d[<< "&gt;Q7", v >>]
              /\ d[<< "&gt;Q7", v >>] >= d[<< "&gt;Q10", v >>]
              /\ d[<< "&gt;Q10", v >>] >= d[<< "&gt;Q12", v >>]
              /\ d[<< "&gt;Q12", v >>] >= d[<< "&gt;Q15", v >>]
              /\ d[<< "&gt;Q15", v >>] >= 0
    IN  (\A s \in DOMAIN nanostat_data :
           chosen(nanostat_data[s]) = "None" \/ monotone(nanostat_data[s])) =>
          /\ "plot" \in handed
          /\ \A s \in DOMAIN nanostat_data :
               (s \in DOMAIN bar_data) <=> (chosen(nanostat_data[s]) # "None")

\* C10: a report that is dropped or that fails leaves the store as it was
\* before the call and is not registered as a data source.
C10_NoPartialIngestion ==
  (JustParsed /\ last.res.outcome \in { "skipped", "error" }) =>
    /\ nanostat_data = last.before
    /\ \A d \in data_sources : d.fn # last.fn

\* A report with parsed fields but no discriminating field, dropped while
\* the store holds a sample.
C10_Witness ==
  /\ JustParsed
  /\ last.res.outcome = "skipped"
  /\ DOMAIN last.res.nano_stats # {}
  /\ DOMAIN last.before # {}

====
